---- MODULE Spec2Model ----
(***************************************************************************)
(* cds2types-watch: the driver (class Program) that converts CDS schema    *)
(* files to TypeScript declaration files, once and then on every watcher   *)
(* event.  Paths are sequences of one-character strings, so that the path  *)
(* functions of Node (POSIX flavour) are computed, not assumed.            *)
(*                                                                         *)
(* A value that is used more than once is bound as the element of a        *)
(* one-element set: CHOOSE r \in {e : x \in {v}} : TRUE is e with x        *)
(* standing for the value of v, and \E x \in {v} : A is A with x standing  *)
(* for the value of v.                                                     *)
(***************************************************************************)
EXTENDS Naturals, Integers, Sequences, FiniteSets, TLC

(***************************************************************************)
(* Node's path module, POSIX flavour (path.sep = "/").                     *)
(***************************************************************************)
sep == "/"

\* Index of the last element of s equal to c, 0 when there is none.
LastIndexOf(s, c) ==
    IF \E i \in 1..Len(s) : s[i] = c
    THEN CHOOSE i \in 1..Len(s) : s[i] = c /\ \A j \in (i + 1)..Len(s) : s[j] # c
    ELSE 0

\* s without its trailing separators.
StripTrailingSep(s) ==
    IF \A i \in 1..Len(s) : s[i] = sep THEN <<>>
    ELSE SubSeq(s, 1, CHOOSE i \in 1..Len(s) :
                          s[i] # sep /\ \A j \in (i + 1)..Len(s) : s[j] = sep)

\* The last component of a path, trailing separators ignored.
LastPart(path) ==
    CHOOSE r \in {SubSeq(q, LastIndexOf(q, sep) + 1, Len(q)) :
                     q \in {StripTrailingSep(path)}} : TRUE

EndsWith(s, suffix) ==
    /\ Len(suffix) <= Len(s)
    /\ SubSeq(s, Len(s) - Len(suffix) + 1, Len(s)) = suffix

\* path.extname: from the last dot of the last component to its end; empty
\* when there is no dot, when the dot starts the component, or for "..".
extname(path) ==
    CHOOSE r \in
        {IF d = 0 \/ d = 1 \/ b = <<".", ".">> THEN <<>> ELSE SubSeq(b, d, Len(b)) :
            b \in {LastPart(path)},
            d \in {LastIndexOf(LastPart(path), ".")}} : TRUE

\* path.basename(path, suffix).
basename(path, suffix) ==
    CHOOSE r \in
        {IF Len(s) > 0 /\ Len(s) <= Len(p)
         THEN IF s = p THEN <<>>
              ELSE IF StripTrailingSep(p) = <<>> THEN p
              ELSE IF EndsWith(b, s) /\ b # s
                   THEN SubSeq(b, 1, Len(b) - Len(s))
                   ELSE b
         ELSE b :
            p \in {path}, s \in {suffix}, b \in {LastPart(path)}} : TRUE

\* path.dirname: the scan for the last separator starts at the end and stops
\* at the second character.
dirname(path) ==
    CHOOSE r \in
        {IF Len(p) = 0 THEN <<".">>
         ELSE IF e <= 1 THEN (IF p[1] = sep THEN <<sep>> ELSE <<".">>)
         ELSE IF p[1] = sep /\ e = 2 THEN <<sep, sep>>
         ELSE SubSeq(p, 1, e - 1) :
            p \in {path},
            e \in {LastIndexOf(StripTrailingSep(path), sep)}} : TRUE

\* The n-th smallest element of a set of numbers.
Nth(S, n) == CHOOSE i \in S : Cardinality({j \in S : j < i}) = n - 1

\* The components of a path: the pieces between separators, empty ones kept.
Split(path) ==
    CHOOSE r \in
        {[n \in 1..Cardinality(starts) |-> SubSeq(p, Nth(starts, n), Nth(ends, n))] :
            p \in {path},
            starts \in {{1} \cup {i + 1 : i \in {j \in 1..Len(path) : path[j] = sep}}},
            ends \in {{Len(path)} \cup
                      {i - 1 : i \in {j \in 1..Len(path) : path[j] = sep}}}} : TRUE

\* The first n components joined by the separator.
RECURSIVE JoinParts(_, _)
JoinParts(parts, n) ==
    IF n = 0 THEN <<>>
    ELSE IF n = 1 THEN parts[1]
    ELSE JoinParts(parts, n - 1) \o <<sep>> \o parts[n]

\* normalizeString, one component: empty and "." components are dropped and
\* ".." takes back the component before it.
NormalizePart(res, h, allowAboveRoot) ==
    IF h = <<>> \/ h = <<".">> THEN res
    ELSE IF h = <<".", ".">>
         THEN IF Len(res) > 0 /\ res[Len(res)] # <<".", ".">>
              THEN SubSeq(res, 1, Len(res) - 1)
              ELSE IF allowAboveRoot THEN Append(res, h) ELSE res
         ELSE Append(res, h)

\* normalizeString over the first n components.
RECURSIVE NormalizeParts(_, _, _)
NormalizeParts(parts, n, allowAboveRoot) ==
    IF n = 0 THEN <<>>
    ELSE CHOOSE r \in {NormalizePart(res, parts[n], allowAboveRoot) :
                          res \in {NormalizeParts(parts, n - 1, allowAboveRoot)}} : TRUE

normalizeString(path, allowAboveRoot) ==
    CHOOSE r \in
        {JoinParts(res, Len(res)) :
            res \in {CHOOSE x \in {NormalizeParts(parts, Len(parts), allowAboveRoot) :
                                      parts \in {Split(path)}} : TRUE}} : TRUE

\* path.normalize.
normalize(path) ==
    CHOOSE r \in
        {IF Len(p) = 0 THEN <<".">>
         ELSE IF Len(body) = 0
              THEN (IF p[1] = sep THEN <<sep>>
                    ELSE IF p[Len(p)] = sep THEN <<".", sep>> ELSE <<".">>)
              ELSE (IF p[1] = sep THEN <<sep>> ELSE <<>>) \o body
                   \o (IF p[Len(p)] = sep THEN <<sep>> ELSE <<>>) :
            p \in {path},
            body \in {IF Len(path) = 0 THEN <<>>
                      ELSE normalizeString(path, path[1] # sep)}} : TRUE

\* path.join of two arguments: empty arguments are skipped.
join(a, b) ==
    CHOOSE r \in
        {IF Len(x) = 0 /\ Len(y) = 0 THEN <<".">>
         ELSE IF Len(x) = 0 THEN normalize(y)
         ELSE IF Len(y) = 0 THEN normalize(x)
         ELSE normalize(x \o <<sep>> \o y) :
            x \in {a}, y \in {b}} : TRUE

(***************************************************************************)
(* src/utils/file.utils.ts                                                 *)
(***************************************************************************)
startsWithSingleDot(fpath) ==
    LET first2chars == SubSeq(fpath, 1, IF Len(fpath) < 2 THEN Len(fpath) ELSE 2)
    IN  first2chars = <<".", sep>> \/ first2chars = <<".", "/">>

\* A replacement that leaves the result as path.join returns it.
replaceExt_asJoined(npath, ext) ==
    IF Len(npath) = 0 THEN npath
    ELSE join(dirname(npath), basename(npath, extname(npath)) \o ext)

\* A replacement that drops the file name's stem with its extension.
replaceExt_noStem(npath, ext) == join(dirname(npath), ext)

replaceExt(npath, ext) ==
    IF Len(npath) = 0 THEN npath
    ELSE CHOOSE r \in
             {IF startsWithSingleDot(npath)
              THEN <<".", sep>> \o nFilepath
              ELSE nFilepath :
                 nFilepath \in {join(dirname(npath),
                                     basename(npath, extname(npath)) \o ext)}} : TRUE

(***************************************************************************)
(* Strings of the program.                                                 *)
(***************************************************************************)
TsExt == <<".", "t", "s">>
CdsExt == <<".", "c", "d", "s">>
JsonExt == <<".", "j", "s", "o", "n">>
Unset == <<>>

\* The schema folder, a second folder for output, and the names in the
\* schema folder.
SrvDir == <<"s">>
OutDir == <<"o">>
ACds == <<"a">> \o CdsExt
BCds == <<"b">> \o CdsExt
Readme == <<"n", ".", "m", "d">>
CdsNames == {ACds, BCds}

(***************************************************************************)
(* The compiled schema (CSN): its definitions, an ordered list of          *)
(* name/definition entries, as Object.entries enumerates them.             *)
(***************************************************************************)
Def(name, kind) == [name |-> name, kind |-> kind]

CsnOne ==
    << Def(<<"n">>, "namespace"), Def(<<"n", ".", "B">>, "entity"),
       Def(<<"S">>, "service"), Def(<<"n", ".", "a">>, "type"),
       Def(<<"r">>, "enum") >>
CsnTwo ==
    << Def(<<"S">>, "service"), Def(<<"S", ".", "e">>, "entity"),
       Def(<<"m">>, "namespace"), Def(<<"M">>, "namespace"),
       Def(<<"m", ".", "e">>, "entity"), Def(<<"S", ".", "a">>, "action") >>
CsnThree ==
    << Def(<<"a", "b">>, "entity"), Def(<<"A", "a">>, "entity"),
       Def(<<"a", ".", "c">>, "type"), Def(<<"a">>, "namespace") >>
CsnBad ==
    << Def(<<"q">>, "entity"), Def(<<"p">>, "annotation") >>
SchemaContents == << CsnOne, CsnTwo, CsnThree, CsnBad >>

\* The content of a schema file after `ver` modifications.
ContentOf(file, ver) ==
    LET base == IF LastPart(file) = ACds THEN 0 ELSE 1
    IN  SchemaContents[((base + ver) % Len(SchemaContents)) + 1]

(***************************************************************************)
(* String.prototype.localeCompare on the letters used: the collation       *)
(* compares base letters first (punctuation before letters, case ignored)  *)
(* and breaks ties by case, lower case first.                              *)
(***************************************************************************)
BaseRank(c) ==
    CASE c = "." -> 0
      [] c \in {"a", "A"} -> 1
      [] c \in {"b", "B"} -> 2
      [] c = "c" -> 3
      [] c = "e" -> 4
      [] c \in {"m", "M"} -> 5
      [] c = "n" -> 6
      [] c = "p" -> 7
      [] c = "q" -> 8
      [] c = "r" -> 9
      [] OTHER -> 10
IsUpper(c) == c \in {"A", "B", "M", "S"}
CaseRank(c) == IF IsUpper(c) THEN 1 ELSE 0

\* -1, 0 or 1: the first difference of the two key sequences decides, a
\* proper prefix comes first.
CompareKeys(x, y) ==
    IF \E i \in 1..Len(x) : i <= Len(y) /\ x[i] # y[i]
    THEN LET d == CHOOSE i \in 1..Len(x) :
                      /\ i <= Len(y)
                      /\ x[i] # y[i]
                      /\ \A j \in 1..(i - 1) : x[j] = y[j]
         IN  IF x[d] < y[d] THEN -1 ELSE 1
    ELSE IF Len(x) < Len(y) THEN -1
    ELSE IF Len(x) > Len(y) THEN 1
    ELSE 0

\* The ranks of the characters of a string.
BaseRanks(x) == [i \in 1..Len(x) |-> BaseRank(x[i])]
CaseRanks(x) == [i \in 1..Len(x) |-> CaseRank(x[i])]

localeCompare(x, y) ==
    CHOOSE r \in
        {IF CompareKeys(bx, by) # 0 THEN CompareKeys(bx, by)
         ELSE CompareKeys(CaseRanks(x), CaseRanks(y)) :
            bx \in {BaseRanks(x)}, by \in {BaseRanks(y)}} : TRUE

\* The greatest element of a set of indexes, 0 when it is empty.
Last(S) ==
    CHOOSE r \in {IF s = {} THEN 0 ELSE CHOOSE i \in s : \A j \in s : j <= i :
                     s \in {S}} : TRUE

\* A comparator that orders the other way round.
SortComparator_descending(key, value) == localeCompare(value.name, key.name)

\* The comparator of the sort: entries are compared by their key.
SortComparator(key, value) == localeCompare(key.name, value.name)

\* Array.prototype.sort: stable, here by insertion.  e goes behind the last
\* element that does not compare greater than it.
InsertSorted(sorted, e) ==
    CHOOSE r \in
        {SubSeq(sorted, 1, at) \o <<e>> \o SubSeq(sorted, at + 1, Len(sorted)) :
            at \in {Last({i \in 1..Len(sorted) : SortComparator(sorted[i], e) <= 0})}} : TRUE

\* The first n entries, sorted.
RECURSIVE SortFirst(_, _)
SortFirst(entries, n) ==
    IF n = 0 THEN <<>>
    ELSE CHOOSE r \in {InsertSorted(sorted, entries[n]) :
                          sorted \in {SortFirst(entries, n - 1)}} : TRUE

SortEntries(entries) ==
    CHOOSE r \in {SortFirst(es, Len(es)) : es \in {entries}} : TRUE

\* Program.loadCdsAndConvertToJSON: the definitions of the result.
loadCdsAndConvertToJSON(csn, sort) ==
    IF sort THEN SortEntries(csn) ELSE csn

(***************************************************************************)
(* CDSParser.parse (./cds.parser): the classifier.  Every definition goes  *)
(* to the group (namespace or service) with the longest name that is a     *)
(* dot-delimited ancestor of its qualified name, or to the root group.  An *)
(* unrecognized kind fails the parse.                                      *)
(***************************************************************************)
KnownKinds == {"namespace", "service", "entity", "type", "enum", "action"}
GroupKinds == {"namespace", "service"}

Some(v) == [defined |-> TRUE, value |-> v]
None == [defined |-> FALSE, value |-> <<>>]

IsUnder(name, group) ==
    /\ Len(name) > Len(group) + 1
    /\ SubSeq(name, 1, Len(group)) = group
    /\ name[Len(group) + 1] = "."

GroupNames(defs) ==
    {defs[i].name : i \in {j \in 1..Len(defs) : defs[j].kind \in GroupKinds}}

\* The owning group of a name, <<>> for the root group.
OwnerOf(name, defs) ==
    CHOOSE r \in
        {IF \E g \in groups : IsUnder(name, g)
         THEN CHOOSE g \in groups :
                  /\ IsUnder(name, g)
                  /\ \A h \in groups : IsUnder(name, h) => Len(h) <= Len(g)
         ELSE <<>> :
            groups \in {GroupNames(defs)}} : TRUE

ParseFails(defs) == \E i \in 1..Len(defs) : defs[i].kind \notin KnownKinds

\* The definitions that belong to group g.
MembersOf(defs, g) ==
    LET Mine(d) == d.kind \notin GroupKinds /\ OwnerOf(d.name, defs) = g
    IN  SelectSeq(defs, Mine)

GroupsOfKind(defs, kind) ==
    LET IsKind(d) == d.kind = kind
    IN  CHOOSE r \in
            {[i \in 1..Len(heads) |->
                 [name |-> heads[i].name, definitions |-> MembersOf(defs, heads[i].name)]] :
                heads \in {SelectSeq(defs, IsKind)}} : TRUE

CDSParse(defs) ==
    CHOOSE r \in
        {[namespaces |-> Some(GroupsOfKind(ds, "namespace")),
          services |-> Some(GroupsOfKind(ds, "service")),
          definitions |-> Some(MembersOf(ds, <<>>))] :
            ds \in {defs}} : TRUE

(***************************************************************************)
(* class Namespace (./types/namespace): a group of the output.             *)
(***************************************************************************)
Namespace(definitions, interfacePrefix, name) ==
    [definitions |-> definitions, interfacePrefix |-> interfacePrefix, name |-> name]

\* Namespace.getTypes: the types the group contributes.
getTypes(n) ==
    [i \in 1..Len(n.definitions) |-> n.interfacePrefix \o n.definitions[i].name]

\* Namespace.generateCode(source, types): the block the group adds to the
\* source file, with the type list it was given.
NamespaceGenerateCode(n, types) ==
    [group |-> n.name, types |-> types]

\* _.flatten of the first n lists.
RECURSIVE FlattenFirst(_, _)
FlattenFirst(lists, n) ==
    IF n = 0 THEN <<>>
    ELSE FlattenFirst(lists, n - 1) \o lists[n]

Flatten(lists) ==
    CHOOSE r \in {FlattenFirst(ls, Len(ls)) : ls \in {lists}} : TRUE

(***************************************************************************)
(* Program.generateCode: the blocks written to the source file, in order.  *)
(***************************************************************************)
\* The groups made of the parser's namespaces, of its services and of its
\* root definitions.
NamespaceGroups(parsed, interfacePrefix) ==
    IF parsed.namespaces.defined
    THEN [i \in 1..Len(parsed.namespaces.value) |->
             Namespace(parsed.namespaces.value[i].definitions, interfacePrefix,
                       parsed.namespaces.value[i].name)]
    ELSE <<>>

ServiceGroups(parsed, interfacePrefix) ==
    IF parsed.services.defined
    THEN [i \in 1..Len(parsed.services.value) |->
             Namespace(parsed.services.value[i].definitions, interfacePrefix,
                       parsed.services.value[i].name)]
    ELSE <<>>

RootGroups(parsed, interfacePrefix) ==
    IF parsed.definitions.defined
    THEN << Namespace(parsed.definitions.value, interfacePrefix, Unset) >>
    ELSE <<>>

\* The blocks the groups add, each generated with the types of all groups.
GenerateAll(groups) ==
    CHOOSE r \in
        {[i \in 1..Len(namespaces) |->
             NamespaceGenerateCode(
                 namespaces[i],
                 Flatten([j \in 1..Len(namespaces) |-> getTypes(namespaces[j])]))] :
            namespaces \in {groups}} : TRUE

\* Generation with the root group first.
generateCode_rootFirst(parsed, interfacePrefix) ==
    CHOOSE r \in
        {GenerateAll(RootGroups(p, interfacePrefix)
                     \o NamespaceGroups(p, interfacePrefix)
                     \o ServiceGroups(p, interfacePrefix)) :
            p \in {parsed}} : TRUE

\* Generation that hands every group the types of the groups up to it.
generateCode_typesSoFar(parsed, interfacePrefix) ==
    CHOOSE r \in
        {[i \in 1..Len(namespaces) |->
             NamespaceGenerateCode(
                 namespaces[i],
                 Flatten([j \in 1..i |-> getTypes(namespaces[j])]))] :
            namespaces \in {CHOOSE g \in {NamespaceGroups(p, interfacePrefix)
                                          \o ServiceGroups(p, interfacePrefix)
                                          \o RootGroups(p, interfacePrefix) :
                                             p \in {parsed}} : TRUE}} : TRUE

generateCode(parsed, interfacePrefix) ==
    CHOOSE r \in
        {GenerateAll(NamespaceGroups(p, interfacePrefix)
                     \o ServiceGroups(p, interfacePrefix)
                     \o RootGroups(p, interfacePrefix)) :
            p \in {parsed}} : TRUE

(***************************************************************************)
(* The formatters (./formatter): NoopFormatter returns the text unchanged, *)
(* PrettierFormatter returns it formatted.                                 *)
(***************************************************************************)
SourceText(blocks) == [body |-> blocks, pretty |-> FALSE]
FormatterFormat(format, text) ==
    IF format THEN [text EXCEPT !.pretty = TRUE] ELSE text

(***************************************************************************)
(* The state of the process and of its surroundings.                       *)
(***************************************************************************)
VARIABLES
    given,      \* the options object as it was when run() was called
    options,    \* the options object given to run(), as it is now
    listing,    \* what fs.readdirSync returns for the schema folder
    mainPc,     \* where Program.run is: "start", "await", "watching", "returned", "rejected"
    k,          \* processFiles: the index in the listing of the file being awaited
    watcher,    \* the chokidar watcher and the listeners registered on it
    runs,       \* every call of processFile, in the order they started; pc is
                \* the await it is at ("load", "init", "format", "write") or how
                \* it ended ("done", "failed": it threw, "fatal": it called
                \* process.exit); threwAt is the step that threw ("load",
                \* "dump", "parse", "init", "format", "write")
    events,     \* the events the watcher has emitted, in order
    version,    \* per schema file, how often it was modified
    disk,       \* the files written: path -> the run that wrote it and which of
                \* its values it wrote ("json": its jsonObj, "text": its text)
    dirs,       \* the directories that exist
    exited,     \* the process has ended
    exitCode,   \* its exit code
    call        \* a call of replaceExt taken by itself: its arguments, its
                \* result and the result of applying it to that result

vars == << given, options, listing, mainPc, k, watcher, runs, events, version,
           disk, dirs, exited, exitCode, call >>

\* The number of watcher events of a behaviour.
MaxEvents == 2

SingleCds == SrvDir \o <<sep>> \o ACds
SchemaFiles == {SrvDir \o <<sep>> \o n : n \in CdsNames}
Folders == {<<".", sep>> \o SrvDir}
Outputs == {SrvDir \o <<sep, "a">> \o TsExt, OutDir \o <<sep, "a">> \o TsExt}
Prefixes == {<<"I">>}
Listings == { <<BCds, Readme, ACds>> }

\* The options the command line can hand to run(): folder mode or
\* single-file mode.
OptionValues ==
    [cds : {Unset}, output : {Unset}, folder : Folders, prefix : Prefixes,
     json : BOOLEAN, format : BOOLEAN, sort : BOOLEAN, watch : BOOLEAN]
    \cup
    [cds : {SingleCds}, output : Outputs, folder : {Unset}, prefix : Prefixes,
     json : BOOLEAN, format : BOOLEAN, sort : BOOLEAN, watch : BOOLEAN]

NoWatcher == [created |-> FALSE, search |-> Unset, onAdd |-> FALSE, onChange |-> FALSE]

\* No call of replaceExt is looked at by itself.
NoCall == [pc |-> "none", npath |-> <<>>, ext |-> <<>>, once |-> <<>>, twice |-> <<>>]

Init ==
    /\ given \in OptionValues
    /\ options = given
    /\ listing \in (IF given.folder = Unset THEN {<<>>} ELSE Listings)
    /\ mainPc = "start"
    /\ k = 0
    /\ watcher = NoWatcher
    /\ runs = <<>>
    /\ events = <<>>
    /\ version = [f \in SchemaFiles |-> 0]
    /\ disk = <<>>
    /\ dirs \in (IF given.output # Unset /\ dirname(given.output) = OutDir
                 THEN {{SrvDir, OutDir}, {SrvDir}}
                 ELSE {{SrvDir}})
    /\ exited = FALSE
    /\ exitCode = 0
    /\ call = NoCall

(***************************************************************************)
(* The file system.                                                        *)
(***************************************************************************)
existsSync(d, p) == normalize(p) \in DOMAIN d
dirExists(ds, p) == normalize(p) \in ds
Written(d, p, content) ==
    CHOOSE r \in {[q \in DOMAIN d \cup {file} |-> IF q = file THEN content ELSE d[q]] :
                     file \in {normalize(p)}} : TRUE
Removed(d, p) ==
    CHOOSE r \in {[q \in DOMAIN d \ {file} |-> d[q]] : file \in {normalize(p)}} : TRUE

\* A write that gives way to a file written by a run that started later.
writeFile_keepNewer(d, i, filepath) ==
    IF existsSync(d, filepath) /\ d[normalize(filepath)].by > i
    THEN d
    ELSE Written(d, filepath, [by |-> i, data |-> "text"])

\* fs.writeFile(filepath, source) by run i, once it has completed.
writeFile(d, i, filepath) == Written(d, filepath, [by |-> i, data |-> "text"])

(***************************************************************************)
(* const newOptions = { ...options }; newOptions.cds = ...;                *)
(* newOptions.output = replaceExt(newOptions.cds, ".ts")                   *)
(***************************************************************************)
NewOptions(o, cdsPath) ==
    [o EXCEPT !.cds = cdsPath, !.output = replaceExt(cdsPath, TsExt)]

\* The options object were newOptions the object itself and not a copy.
AfterSpread_alias(o, cdsPath) == NewOptions(o, cdsPath)

\* The options object after newOptions was made from it: the spread copies,
\* the assignments go to the copy.
AfterSpread(o, cdsPath) == o

\* A call of processFile that has run to its first await (cds.load).
NewRun(origin, o) ==
    [origin |-> origin, opts |-> o, pc |-> "load", ver |-> 0,
     defs |-> <<>>, text |-> SourceText(<<>>), wrote |-> <<>>,
     threwAt |-> "none"]

InFlight(r) == r.pc \in {"load", "init", "format", "write"}

(***************************************************************************)
(* Program.createWatcher: the watcher and its listeners.                   *)
(***************************************************************************)
\* A watcher that is created whether or not watching was asked for.
createWatcher_unconditional(o) ==
    [created |-> TRUE,
     search |-> IF o.folder # Unset
                THEN o.folder \o <<sep, "*">> \o CdsExt
                ELSE o.cds,
     onAdd |-> o.folder # Unset,
     onChange |-> TRUE]

createWatcher(o) ==
    IF ~o.watch THEN NoWatcher
    ELSE [created |-> TRUE,
          search |-> IF o.folder # Unset
                     THEN o.folder \o <<sep, "*">> \o CdsExt
                     ELSE o.cds,
          onAdd |-> o.folder # Unset,
          onChange |-> TRUE]

\* The paths the watcher reports: the files its search string matches, as
\* chokidar names them (normalized).
WatchedPaths(w) ==
    IF LastPart(w.search) = <<"*">> \o CdsExt
    THEN {join(dirname(w.search), n) : n \in CdsNames}
    ELSE {normalize(w.search)}

\* A listener that starts no run while one for the same file is in flight.
ListenerStarts_coalesced(rs, kind, o, filePath) ==
    IF \E i \in 1..Len(rs) : InFlight(rs[i]) /\ rs[i].opts.cds = filePath
    THEN rs
    ELSE Append(rs, NewRun(kind, NewOptions(o, filePath)))

\* A listener that abandons the runs in flight for the same file.
ListenerStarts_cancelling(rs, kind, o, filePath) ==
    Append([i \in 1..Len(rs) |->
               IF InFlight(rs[i]) /\ rs[i].opts.cds = filePath
               THEN [rs[i] EXCEPT !.pc = "cancelled"]
               ELSE rs[i]],
           NewRun(kind, NewOptions(o, filePath)))

\* The runs after a listener ran for an event on filePath: the listener
\* calls processFile, which runs to its first await.
ListenerStarts(rs, kind, o, filePath) ==
    Append(rs, NewRun(kind, NewOptions(o, filePath)))

(***************************************************************************)
(* Program.run and Program.processFiles, from one await to the next.       *)
(***************************************************************************)
\* The files of the listing from index j on that processFiles converts.
ToConvert(j) == {i \in j..Len(listing) : extname(listing[i]) = CdsExt}

\* After the initial processing: run() calls createWatcher and returns.
Finish(rs) ==
    /\ runs' = rs
    /\ watcher' = createWatcher(options)
    /\ mainPc' = IF options.watch THEN "watching" ELSE "returned"
    /\ k' = 0
    /\ UNCHANGED options

\* A loop that starts the remaining files' runs without awaiting any.
processFiles_concurrent(j, rs) ==
    \E todo \in {ToConvert(j)} :
        IF todo # {}
        THEN \E started \in {[n \in 1..Cardinality(todo) |->
                                NewRun("init", NewOptions(options,
                                           join(options.folder, listing[Nth(todo, n)])))]} :
                 /\ runs' = rs \o started
                 /\ options' = options
                 /\ k' = Len(listing)
                 /\ mainPc' = "await"
                 /\ UNCHANGED watcher
        ELSE Finish(rs)

\* processFiles continues its loop at index j: the next ".cds" file of the
\* listing is started and awaited; after the last one run() goes on.
processFiles(j, rs) ==
    \E todo \in {ToConvert(j)} :
        IF todo # {}
        THEN \E i \in {CHOOSE x \in todo : \A y \in todo : x <= y} :
             \E cdsPath \in {join(options.folder, listing[i])} :
                 /\ runs' = Append(rs, NewRun("init", NewOptions(options, cdsPath)))
                 /\ options' = AfterSpread(options, cdsPath)
                 /\ k' = i
                 /\ mainPc' = "await"
                 /\ UNCHANGED watcher
        ELSE Finish(rs)

\* run(options) is called.
Run ==
    /\ mainPc = "start"
    /\ ~exited
    /\ IF options.folder # Unset
       THEN IF dirExists(dirs, options.folder)
            THEN processFiles(1, runs)
            ELSE \* readdirSync throws
                 /\ mainPc' = "rejected"
                 /\ UNCHANGED << options, k, watcher, runs >>
       ELSE /\ runs' = Append(runs, NewRun("init", options))
            /\ mainPc' = "await"
            /\ UNCHANGED << options, k, watcher >>
    /\ UNCHANGED << call, given, listing, events, version, disk, dirs, exited, exitCode >>

(***************************************************************************)
(* Program.processFile, from one await to the next.                        *)
(***************************************************************************)
\* processFile's promise rejects.  The initial run rejects run(); a
\* listener's rejection is unhandled, which ends the process with code 1 or
\* only warns, depending on the Node version.
Rejects(i, rs) ==
    /\ runs' = [rs EXCEPT ![i].pc = "failed", ![i].threwAt = rs[i].pc]
    /\ IF rs[i].origin = "init"
       THEN /\ mainPc' = "rejected"
            /\ UNCHANGED << exited, exitCode >>
       ELSE /\ UNCHANGED mainPc
            /\ \E crash \in BOOLEAN :
                  /\ exited' = crash
                  /\ exitCode' = IF crash THEN 1 ELSE exitCode
    /\ UNCHANGED << options, k, watcher >>

\* processFile's promise resolves: the initial run lets run() go on.
Resolves(i, rs) ==
    /\ IF rs[i].origin = "init"
       THEN IF options.folder # Unset THEN processFiles(k + 1, rs) ELSE Finish(rs)
       ELSE /\ runs' = rs
            /\ UNCHANGED << options, mainPc, k, watcher >>
    /\ UNCHANGED << exited, exitCode >>

\* A dump that is written whether or not it was asked for.
writeJson_always(d, i, o) ==
    Written(d, o.output \o JsonExt, [by |-> i, data |-> "json"])

\* if (options.json) fs.writeFileSync(options.output + ".json", ...) by run i.
writeJson(d, i, o) ==
    IF o.json
    THEN Written(d, o.output \o JsonExt, [by |-> i, data |-> "json"])
    ELSE d

\* An output file that is left in place.
removeOutput_keep(d, o) == d

\* if (fs.existsSync(options.output)) fs.removeSync(options.output)
removeOutput(d, o) ==
    IF existsSync(d, o.output) THEN Removed(d, o.output) ELSE d

\* The old output removed before the schema is parsed.
DiskAtParse_outputRemoved(d, i, o) == removeOutput(writeJson(d, i, o), o)

\* The files when the parser is called: the dump is written, the old output
\* is not yet removed.
DiskAtParse(d, i, o) == writeJson(d, i, o)

\* cds.load has settled: compile, sort, dump the JSON, parse, remove the old
\* output and start the formatter's init.
LoadDone(i) ==
    /\ i \in 1..Len(runs)
    /\ runs[i].pc = "load"
    /\ ~exited
    /\ \E o \in {runs[i].opts} :
       \E file \in {normalize(o.cds)} :
       \E ver \in {version[file]} :
       \E jsonObj \in {loadCdsAndConvertToJSON(ContentOf(file, ver), o.sort)} :
       \E jsonPath \in {o.output \o JsonExt} :
          IF ~dirExists(dirs, dirname(o.cds))
          THEN \* cds.load rejects: the file is gone
               /\ Rejects(i, runs)
               /\ UNCHANGED disk
          ELSE IF o.json /\ ~dirExists(dirs, dirname(jsonPath))
          THEN \* writeFileSync throws
               /\ Rejects(i, [runs EXCEPT ![i].ver = ver, ![i].defs = jsonObj,
                                          ![i].pc = "dump"])
               /\ UNCHANGED disk
          ELSE \E disk1 \in {DiskAtParse(disk, i, o)} :
               \E r1 \in {[runs[i] EXCEPT
                             !.ver = ver, !.defs = jsonObj,
                             !.wrote = IF o.json THEN Append(@, normalize(jsonPath))
                                       ELSE @]} :
                  IF ParseFails(jsonObj)
                  THEN /\ Rejects(i, [runs EXCEPT ![i] = [r1 EXCEPT !.pc = "parse"]])
                       /\ disk' = disk1
                  ELSE /\ runs' = [runs EXCEPT ![i] = [r1 EXCEPT !.pc = "init"]]
                       /\ disk' = removeOutput(disk1, o)
                       /\ UNCHANGED << options, mainPc, k, watcher, exited, exitCode >>
    /\ UNCHANGED << call, given, listing, events, version, dirs >>

\* A source file kept from run to run: the code of a run is generated after
\* the blocks the earlier runs left in it.
InitDone_sharedSource(i) ==
    /\ i \in 1..Len(runs)
    /\ runs[i].pc = "init"
    /\ ~exited
    /\ \E parsed \in {CDSParse(runs[i].defs)} :
       \E kept \in {Flatten([j \in 1..Len(runs) |-> runs[j].text.body])} :
       \E text \in {SourceText(kept \o generateCode(parsed, runs[i].opts.prefix))} :
          runs' = [runs EXCEPT ![i].pc = "format", ![i].text = text]
    /\ UNCHANGED << call, given, options, listing, mainPc, k, watcher, events, version,
                    disk, dirs, exited, exitCode >>

\* The formatter's init has resolved: generate the code, take the text and
\* start formatter.format.
InitDone(i) ==
    /\ i \in 1..Len(runs)
    /\ runs[i].pc = "init"
    /\ ~exited
    /\ \E parsed \in {CDSParse(runs[i].defs)} :
       \E text \in {SourceText(generateCode(parsed, runs[i].opts.prefix))} :
          runs' = [runs EXCEPT ![i].pc = "format", ![i].text = text]
    /\ UNCHANGED << call, given, options, listing, mainPc, k, watcher, events, version,
                    disk, dirs, exited, exitCode >>

\* A rejection of the formatter's init that is caught and ignored: the run
\* goes on to generate the code.
InitFail_swallowed(i) ==
    /\ i \in 1..Len(runs)
    /\ runs[i].pc = "init"
    /\ runs[i].opts.format
    /\ ~exited
    /\ \E parsed \in {CDSParse(runs[i].defs)} :
       \E text \in {SourceText(generateCode(parsed, runs[i].opts.prefix))} :
          runs' = [runs EXCEPT ![i].pc = "format", ![i].text = text,
                               ![i].threwAt = "init"]
    /\ UNCHANGED << call, given, options, listing, mainPc, k, watcher, events, version,
                    disk, dirs, exited, exitCode >>

\* The formatter's init has rejected (PrettierFormatter: invalid
\* configuration).
InitFail(i) ==
    /\ i \in 1..Len(runs)
    /\ runs[i].pc = "init"
    /\ runs[i].opts.format
    /\ ~exited
    /\ Rejects(i, runs)
    /\ UNCHANGED << call, given, listing, events, version, disk, dirs >>

\* formatter.format has rejected (PrettierFormatter: the text cannot be
\* formatted).
FormatFail(i) ==
    /\ i \in 1..Len(runs)
    /\ runs[i].pc = "format"
    /\ runs[i].opts.format
    /\ ~exited
    /\ Rejects(i, runs)
    /\ UNCHANGED << call, given, listing, events, version, disk, dirs >>

\* An exit that reports success.
ExitCodeOf_zero(n) == 0

\* process.exit(n): the exit code is the low byte.
ExitCodeOf(n) == n % 256

\* formatter.format has resolved: writeSource starts fs.writeFile, or ends
\* the process when the directory is missing.
FormatDone(i) ==
    /\ i \in 1..Len(runs)
    /\ runs[i].pc = "format"
    /\ ~exited
    /\ \E o \in {runs[i].opts} :
       \E formattedText \in {FormatterFormat(o.format, runs[i].text)} :
       \E dir \in {dirname(o.output)} :
          IF dirExists(dirs, dir)
          THEN /\ runs' = [runs EXCEPT ![i].pc = "write", ![i].text = formattedText]
               /\ UNCHANGED << exited, exitCode >>
          ELSE /\ runs' = [runs EXCEPT ![i].pc = "fatal", ![i].text = formattedText]
               /\ exited' = TRUE
               /\ exitCode' = ExitCodeOf(-1)
    /\ UNCHANGED << call, given, options, listing, mainPc, k, watcher, events, version,
                    disk, dirs >>

\* fs.writeFile has settled: the file is written and processFile returns, or
\* the write failed because the directory went away.
WriteDone(i) ==
    /\ i \in 1..Len(runs)
    /\ runs[i].pc = "write"
    /\ ~exited
    /\ \E o \in {runs[i].opts} :
          IF dirExists(dirs, dirname(o.output))
          THEN /\ disk' = writeFile(disk, i, o.output)
               /\ Resolves(i, [runs EXCEPT ![i].pc = "done",
                                           ![i].wrote = Append(@, normalize(o.output))])
          ELSE /\ Rejects(i, runs)
               /\ UNCHANGED disk
    /\ UNCHANGED << call, given, listing, events, version, dirs >>

(***************************************************************************)
(* The surroundings: the watcher's events and the file system.             *)
(***************************************************************************)
\* A watched file is modified and the watcher emits "change".
OnChange(filePath) ==
    /\ watcher.created
    /\ ~exited
    /\ Len(events) < MaxEvents
    /\ filePath \in WatchedPaths(watcher)
    /\ events' = Append(events, [kind |-> "change", path |-> filePath])
    /\ version' = [version EXCEPT ![filePath] = @ + 1]
    /\ IF watcher.onChange
       THEN /\ runs' = ListenerStarts(runs, "change", options, filePath)
            /\ options' = AfterSpread(options, filePath)
       ELSE UNCHANGED << runs, options >>
    /\ UNCHANGED << call, given, listing, mainPc, k, watcher, disk, dirs, exited, exitCode >>

\* A file matching the search string appears and the watcher emits "add".
OnAdd(filePath) ==
    /\ watcher.created
    /\ ~exited
    /\ Len(events) < MaxEvents
    /\ filePath \in WatchedPaths(watcher)
    /\ events' = Append(events, [kind |-> "add", path |-> filePath])
    /\ IF watcher.onAdd
       THEN /\ runs' = ListenerStarts(runs, "add", options, filePath)
            /\ options' = AfterSpread(options, filePath)
       ELSE UNCHANGED << runs, options >>
    /\ UNCHANGED << call, given, listing, mainPc, k, watcher, version, disk, dirs,
                    exited, exitCode >>

\* A directory is removed, with the files in it.
RemoveDir(d) ==
    /\ d \in dirs
    /\ ~exited
    /\ dirs' = dirs \ {d}
    /\ disk' = [q \in {x \in DOMAIN disk : normalize(dirname(x)) # d} |-> disk[q]]
    /\ UNCHANGED << call, given, options, listing, mainPc, k, watcher, runs, events,
                    version, exited, exitCode >>

Next ==
    \/ Run
    \/ \E i \in 1..Len(runs) : LoadDone(i)
    \/ \E i \in 1..Len(runs) : InitDone(i)
    \/ \E i \in 1..Len(runs) : InitFail(i)
    \/ \E i \in 1..Len(runs) : FormatDone(i)
    \/ \E i \in 1..Len(runs) : FormatFail(i)
    \/ \E i \in 1..Len(runs) : WriteDone(i)
    \/ \E p \in SchemaFiles : OnChange(p)
    \/ \E p \in SchemaFiles : OnAdd(p)
    \/ \E d \in {SrvDir, OutDir} : RemoveDir(d)

Spec == Init /\ [][Next]_vars

\* The most runs a behaviour can start: one per ".cds" name of the folder
\* and one per event.
MaxRuns == Cardinality(CdsNames) + MaxEvents

\* The next continuation of run i.
Step(i) == LoadDone(i) \/ InitDone(i) \/ FormatDone(i) \/ WriteDone(i)

\* The promises of the collaborators (cds.load, the formatter, fs.writeFile)
\* settle, and the event loop runs a continuation whenever one is pending.
FairSpec == Init /\ [][Next]_vars /\ WF_vars(\E i \in 1..MaxRuns : Step(i))

(***************************************************************************)
(* replaceExt by itself, on every path of up to MaxLen characters and the  *)
(* extensions ".ts" and ".d.ts": it is called, and called again on its     *)
(* result.  The program has not started.                                   *)
(***************************************************************************)
\* The length of the longest path given to replaceExt.
MaxLen == 5

PathChars == {"a", ".", sep}
DTsExt == <<".", "d">> \o TsExt
Exts == {TsExt, DTsExt}
Paths == UNION {[1..n -> PathChars] : n \in 0..MaxLen}

ReplaceExtInit ==
    /\ call \in [pc : {"called"}, npath : Paths, ext : Exts,
                 once : {<<>>}, twice : {<<>>}]
    /\ given = [cds |-> SingleCds, output |-> Unset, folder |-> Unset,
                prefix |-> Unset, json |-> FALSE, format |-> FALSE,
                sort |-> FALSE, watch |-> FALSE]
    /\ options = given
    /\ listing = <<>>
    /\ mainPc = "start"
    /\ k = 0
    /\ watcher = NoWatcher
    /\ runs = <<>>
    /\ events = <<>>
    /\ version = [f \in SchemaFiles |-> 0]
    /\ disk = <<>>
    /\ dirs = {SrvDir}
    /\ exited = FALSE
    /\ exitCode = 0

\* replaceExt(npath, ext) returns.
Replace ==
    /\ call.pc = "called"
    /\ call' = [call EXCEPT !.pc = "returned",
                            !.once = replaceExt(call.npath, call.ext)]
    /\ UNCHANGED << given, options, listing, mainPc, k, watcher, runs, events,
                    version, disk, dirs, exited, exitCode >>

\* replaceExt(replaceExt(npath, ext), ext) returns.
ReplaceAgain ==
    /\ call.pc = "returned"
    /\ call' = [call EXCEPT !.pc = "replaced twice",
                            !.twice = replaceExt(call.once, call.ext)]
    /\ UNCHANGED << given, options, listing, mainPc, k, watcher, runs, events,
                    version, disk, dirs, exited, exitCode >>

ReplaceExtNext == Replace \/ ReplaceAgain

ReplaceExtSpec == ReplaceExtInit /\ [][ReplaceExtNext]_vars

(***************************************************************************)
(* Properties.                                                             *)
(***************************************************************************)
FolderMode == given.folder # Unset
IsWatchRun(r) == r.origin # "init"
IsInitRun(r) == r.origin = "init"
WatchRunIndexes == {i \in 1..Len(runs) : IsWatchRun(runs[i])}
ListenedFor(e) == e.kind = "change" \/ (e.kind = "add" /\ FolderMode)

\* C1: in watch mode every "change" event, and in folder mode every "add"
\* event, starts exactly one run of processFile for the file the event
\* names: the runs started by listeners are, in order, the listened-for
\* events, whatever runs are in flight; no event is coalesced or dropped.
C1_EveryEventStartsARun ==
    \A started \in {SelectSeq(runs, IsWatchRun)} :
    \A listened \in {SelectSeq(events, ListenedFor)} :
        /\ Len(started) = Len(listened)
        /\ \A j \in 1..Len(started) :
              /\ started[j].origin = listened[j].kind
              /\ started[j].opts.cds = listened[j].path

\* Two events for one file, the second while the run of the first was still
\* in flight, and two runs for it.
C1_Witness ==
    /\ Len(events) = 2
    /\ events[1].path = events[2].path
    /\ \E i, j \in WatchRunIndexes :
          /\ i < j
          /\ runs[i].opts.cds = events[1].path
          /\ runs[j].opts.cds = events[1].path
          /\ runs[i].pc = "load"
          /\ runs[j].pc = "load"

\* C2: runs for one file are not serialized: whenever a run's write
\* completes, the output file holds what that run wrote, also when a run
\* started by a later event has written the same file before; so the file
\* left on disk can come from the older run.
C2_EveryWriteLands ==
    [][\A i \in 1..Len(runs) :
          (runs[i].pc = "write" /\ runs'[i].pc = "done")
              => /\ existsSync(disk', runs[i].opts.output)
                 /\ disk'[normalize(runs[i].opts.output)].by = i]_vars

\* Two runs for one file started by watcher events were in flight together,
\* the later one has written, and the file on disk is the earlier one's.
C2_Witness ==
    \E i, j \in WatchRunIndexes :
        /\ i < j
        /\ runs[i].opts.cds = runs[j].opts.cds
        /\ runs[i].pc = "done"
        /\ runs[j].pc = "done"
        /\ runs[i].ver < runs[j].ver
        /\ existsSync(disk, runs[j].opts.output)
        /\ disk[normalize(runs[j].opts.output)].by = i

\* C3 (as amended): no event cancels a run in flight: an event changes no
\* run that exists, and every run started by a watcher event eventually
\* writes its output file or fails, unless the process ends first (a missing
\* output directory or an unhandled rejection of any run ends the process
\* and with it every run in flight).
C3_NoEventCancelsARun ==
    /\ [][events' # events => \A i \in 1..Len(runs) : runs'[i] = runs[i]]_vars
    /\ \A i \in 1..MaxRuns :
          (Len(runs) >= i /\ IsWatchRun(runs[i]))
              ~> (exited \/ (Len(runs) >= i /\ runs[i].pc \in {"done", "failed"}))

\* C3 as stated: every run started by a watcher event itself ends, with its
\* output written or with a fatal error; so the process never ends with such
\* a run still in flight.
C3_EveryRunEnds ==
    exited => \A i \in WatchRunIndexes : ~InFlight(runs[i])

\* A run started by a watcher event ended with its output written although
\* a later event arrived while it was in flight.
C3_Witness ==
    \E i, j \in WatchRunIndexes :
        /\ i < j
        /\ runs[i].pc = "done"
        /\ runs[j].ver > runs[i].ver
        /\ InFlight(runs[j])

\* The run has generated its text (every text has at least the root block).
Generated(r) == r.text.body # <<>>

\* The run has loaded its definitions.
Loaded(r) == r.defs # <<>>

\* The names of the groups the parser returned, in its order.
NamesOf(groups) == [n \in 1..Len(groups) |-> groups[n].name]

\* C4: in folder mode the initial pass handles the files one after another:
\* at most one run of the initial pass is in flight, every run of the pass
\* but the last has completed with its output written, and the runs are, in
\* order, the ".cds" names of the directory listing.
C4_InitialPassSequential ==
    FolderMode =>
        \A initial \in {SelectSeq(runs, IsInitRun)} :
        \A names \in {SelectSeq(listing, LAMBDA f : EndsWith(f, CdsExt))} :
            /\ Cardinality({i \in 1..Len(initial) : InFlight(initial[i])}) <= 1
            /\ Len(initial) <= Len(names)
            /\ \A j \in 1..Len(initial) :
                  /\ initial[j].opts.cds = normalize(given.folder \o <<sep>> \o names[j])
                  /\ j < Len(initial) =>
                        /\ initial[j].pc = "done"
                        /\ \E w \in 1..Len(initial[j].wrote) :
                              initial[j].wrote[w] = normalize(initial[j].opts.output)

\* The second file of the listing is being processed, the first one is
\* written, and the listing's order is not the alphabetical one.
C4_Witness ==
    /\ FolderMode
    /\ \E i, j \in 1..Len(runs) :
          /\ i < j
          /\ IsInitRun(runs[i])
          /\ IsInitRun(runs[j])
          /\ runs[i].pc = "done"
          /\ existsSync(disk, runs[i].opts.output)
          /\ LastPart(runs[i].opts.cds) = BCds
          /\ LastPart(runs[j].opts.cds) = ACds
          /\ InFlight(runs[j])

\* C5: every run started by a watcher event has the option values run() was
\* given, but for the schema path, which is the event's path, and the output
\* path, which is that path with ".cds" replaced by ".ts"; and the options
\* object given to run() is never changed.
C5_SameOptionsOnEveryRun ==
    \A started \in {SelectSeq(runs, IsWatchRun)} :
    \A listened \in {SelectSeq(events, ListenedFor)} :
        /\ options = given
        /\ \A j \in 1..Len(started) :
              /\ [started[j].opts EXCEPT !.cds = given.cds, !.output = given.output] = given
              /\ j <= Len(listened)
              /\ started[j].opts.cds = listened[j].path
              /\ EndsWith(started[j].opts.cds, CdsExt)
              /\ started[j].opts.output =
                     SubSeq(started[j].opts.cds, 1,
                            Len(started[j].opts.cds) - Len(CdsExt)) \o TsExt

\* The second of two runs started by watcher events has written, with the
\* sort and json options that run() was given and with its own output path.
C5_Witness ==
    \E i, j \in WatchRunIndexes :
        /\ i < j
        /\ runs[j].pc = "done"
        /\ runs[j].opts.sort
        /\ runs[j].opts.json
        /\ runs[j].opts.output # given.output
        /\ runs[j].opts.cds # runs[i].opts.cds

\* C6: a run started by a watcher event writes the output file that the
\* initial run for the same schema file wrote, in single-file mode and in
\* folder mode.
C6_SameOutputAsInitialRun ==
    \A i, j \in 1..Len(runs) :
        ( /\ IsInitRun(runs[i])
          /\ IsWatchRun(runs[j])
          /\ runs[i].pc = "done"
          /\ runs[j].pc = "done"
          /\ normalize(runs[i].opts.cds) = normalize(runs[j].opts.cds) )
            => normalize(runs[j].opts.output) = normalize(runs[i].opts.output)

\* C7: the blocks of a run's text are, in order, the namespaces in the
\* order the parser returned them, then the services in the order the parser
\* returned them, then the one root group; every group has exactly one
\* block.
C7_GroupsInOrder ==
    \A i \in 1..Len(runs) :
        Generated(runs[i]) =>
            \A body \in {runs[i].text.body} :
            \A parsed \in {CDSParse(runs[i].defs)} :
                [b \in 1..Len(body) |-> body[b].group]
                    = NamesOf(parsed.namespaces.value)
                      \o NamesOf(parsed.services.value)
                      \o << Unset >>

\* A run has written a text whose definitions declare a service before two
\* namespaces.
C7_Witness ==
    \E i \in 1..Len(runs) :
        /\ runs[i].pc = "done"
        /\ runs[i].defs = CsnTwo
        /\ Len(runs[i].text.body) = 4
        /\ runs[i].text.body[3].group = <<"S">>

\* C8: every block of a run's text was generated with the types of all
\* groups of the run: what getTypes gives for every namespace, every service
\* and the root group, also for the groups that come later.
C8_FullTypeList ==
    \A i \in 1..Len(runs) :
        Generated(runs[i]) =>
            \A body \in {runs[i].text.body} :
            \A parsed \in {CDSParse(runs[i].defs)} :
            \A groups \in {parsed.namespaces.value \o parsed.services.value
                            \o << [name |-> Unset,
                                   definitions |-> parsed.definitions.value] >>} :
            \A all \in {UNION {{getTypes(Namespace(groups[g].definitions,
                                                    runs[i].opts.prefix,
                                                    groups[g].name))[t] :
                                    t \in 1..Len(groups[g].definitions)} :
                                g \in 1..Len(groups)}} :
                \A b \in 1..Len(body) :
                    /\ Len(body[b].types) = Cardinality(all)
                    /\ {body[b].types[t] : t \in 1..Len(body[b].types)} = all

\* The first block of a text was generated with a type of the root group,
\* which is the last block.
C8_Witness ==
    \E i \in 1..Len(runs) :
        /\ Generated(runs[i])
        /\ runs[i].defs = CsnOne
        /\ Len(runs[i].text.body) = 3
        /\ \E t \in 1..Len(runs[i].text.body[1].types) :
              runs[i].text.body[1].types[t] = runs[i].opts.prefix \o <<"r">>

\* C9: with the sort option the definitions a run hands to the classifier
\* are the compiler's definitions in ascending order of their names, as
\* localeCompare orders them, the same entries and no others; without it
\* they are the compiler's definitions unchanged.
C9_SortedOrUnchanged ==
    \A i \in 1..Len(runs) :
        Loaded(runs[i]) =>
            \A defs \in {runs[i].defs} :
            \A csn \in {ContentOf(normalize(runs[i].opts.cds), runs[i].ver)} :
                IF runs[i].opts.sort
                THEN /\ Len(defs) = Len(csn)
                     /\ {defs[x] : x \in 1..Len(defs)} = {csn[x] : x \in 1..Len(csn)}
                     /\ \A a \in 1..(Len(defs) - 1) :
                           localeCompare(defs[a].name, defs[a + 1].name) < 0
                ELSE defs = csn

\* A run with the sort option has classified definitions that the compiler
\* gave in another order.
C9_Witness ==
    \E i \in 1..Len(runs) :
        /\ runs[i].opts.sort
        /\ Generated(runs[i])
        /\ runs[i].defs # ContentOf(normalize(runs[i].opts.cds), runs[i].ver)

\* C10 (as amended): when formatter.format has resolved and writeSource
\* finds the directory of the output path missing, it starts no write, nothing
\* on disk changes and the process ends with a non-zero exit code, for every
\* combination of the other options and for runs of every origin; what the
\* run has written by then is at most its JSON dump, written while the
\* directory still existed.
C10_MissingDirectoryIsFatal ==
    [][\A i \in 1..Len(runs) :
          (runs[i].pc = "format" /\ runs'[i].pc # "format"
                                 /\ runs'[i].threwAt # "format")
              => IF dirExists(dirs, dirname(runs[i].opts.output))
                 THEN runs'[i].pc = "write" /\ ~exited'
                 ELSE /\ runs'[i].pc = "fatal"
                      /\ exited'
                      /\ exitCode' # 0
                      /\ disk' = disk
                      /\ runs'[i].wrote = runs[i].wrote
                      /\ runs[i].wrote \in
                            {<<>>, <<normalize(runs[i].opts.output \o JsonExt)>>}
                      /\ runs[i].wrote # <<>> => runs[i].opts.json]_vars

\* C10 as stated: a run that found the directory of its output path missing
\* has written no file at all, and the process has ended with a non-zero
\* exit code.
C10_NoFileAtAll ==
    \A i \in 1..Len(runs) :
        runs[i].pc = "fatal" =>
            /\ runs[i].wrote = <<>>
            /\ exited
            /\ exitCode # 0

\* A run started by a watcher event found the directory missing after it had
\* written its JSON dump; the process has ended.
C10_Witness ==
    \E i \in WatchRunIndexes :
        /\ runs[i].pc = "fatal"
        /\ runs[i].opts.json
        /\ runs[i].wrote = <<normalize(runs[i].opts.output \o JsonExt)>>
        /\ exited
        /\ exitCode = 255

(***************************************************************************)
(* C11: when the parser fails on an unrecognized definition kind the run   *)
(* fails without generating code, without writing its output file and      *)
(* without removing an existing one: the step changes nothing on disk but  *)
(* the debug dump "<output>.json", which the run writes before it parses   *)
(* when the json option is set; a schema with an unrecognized kind never   *)
(* gets a run past the parser, and a run that failed there does nothing    *)
(* more.                                                                   *)
(***************************************************************************)
C11_ParseFailureWritesOnlyTheDump ==
    [][\A i \in 1..Len(runs) :
          /\ (Loaded(runs'[i]) /\ ParseFails(runs'[i].defs))
                => runs'[i].pc = "failed"
          /\ runs[i].threwAt = "parse" => runs'[i] = runs[i]
          /\ (runs[i].pc = "load" /\ runs'[i].threwAt = "parse") =>
                \A o \in {runs[i].opts} :
                \A dump \in {normalize(o.output \o JsonExt)} :
                   /\ ParseFails(runs'[i].defs)
                   /\ runs'[i].pc = "failed"
                   /\ ~Generated(runs'[i])
                   /\ \A p \in (DOMAIN disk \cup DOMAIN disk') \ {dump} :
                         /\ p \in DOMAIN disk
                         /\ p \in DOMAIN disk'
                         /\ disk'[p] = disk[p]
                   /\ IF o.json
                      THEN /\ dump \in DOMAIN disk'
                           /\ disk'[dump] = [by |-> i, data |-> "json"]
                           /\ runs'[i].wrote = << dump >>
                      ELSE /\ disk' = disk
                           /\ runs'[i].wrote = << >>
      ]_vars

\* C11 as stated: a run that failed in the parser has written no file.
C11_NoFileWritten ==
    \A i \in 1..Len(runs) :
        runs[i].threwAt = "parse" => runs[i].wrote = << >>

\* A run failed in the parser after writing its dump, and the output file an
\* earlier run wrote is still there.
C11_Witness ==
    \E i \in 1..Len(runs) :
        /\ runs[i].threwAt = "parse"
        /\ runs[i].opts.json
        /\ \A o \in {runs[i].opts} :
              /\ existsSync(disk, o.output \o JsonExt)
              /\ disk[normalize(o.output \o JsonExt)].by = i
              /\ existsSync(disk, o.output)
              /\ disk[normalize(o.output)].by < i

(***************************************************************************)
(* C12: a run whose formatter initialization failed is aborted: it has     *)
(* ended as failed, it has generated no code, it has not written its       *)
(* output path and no file at that path is its work.                       *)
(***************************************************************************)
C12_FormatterInitFailureAborts ==
    \A i \in 1..Len(runs) :
        runs[i].threwAt = "init" =>
            \A o \in {runs[i].opts} :
            \A out \in {normalize(o.output)} :
                /\ o.format
                /\ runs[i].pc = "failed"
                /\ ~Generated(runs[i])
                /\ \A w \in 1..Len(runs[i].wrote) : runs[i].wrote[w] # out
                /\ out \in DOMAIN disk => disk[out].by # i

\* A run that had loaded and parsed its schema failed at the formatter's
\* initialization.
C12_Witness ==
    \E i \in 1..Len(runs) :
        /\ runs[i].threwAt = "init"
        /\ runs[i].pc = "failed"
        /\ Loaded(runs[i])
        /\ ~ParseFails(runs[i].defs)

(***************************************************************************)
(* C13: the debug dump is written only when the json option is set.  Every *)
(* dump on disk is the work of a run with json set and lies at that run's  *)
(* output path with ".json" appended; a run with json unset writes no      *)
(* ".json" file; a run with json set whose schema was loaded writes the    *)
(* compiled schema it loaded there in the step that leaves cds.load, and   *)
(* never again.                                                            *)
(***************************************************************************)
C13_DumpOnlyWhenAsked ==
    [][/\ \A p \in DOMAIN disk' :
             disk'[p].data = "json" =>
                 \A o \in {runs'[disk'[p].by].opts} :
                     o.json /\ p = normalize(o.output \o JsonExt)
       /\ \A i \in 1..Len(runs') :
          \A o \in {runs'[i].opts} :
          \A dump \in {normalize(o.output \o JsonExt)} :
          \A dumps \in {{w \in 1..Len(runs'[i].wrote) :
                            EndsWith(runs'[i].wrote[w], JsonExt)}} :
             /\ \A w \in dumps : o.json /\ runs'[i].wrote[w] = dump
             /\ Cardinality(dumps) =
                   IF o.json /\ runs'[i].pc # "load"
                             /\ runs'[i].threwAt \notin {"load", "dump"}
                   THEN 1 ELSE 0
             /\ (i <= Len(runs) /\ runs[i].pc = "load" /\ runs'[i].pc # "load"
                    /\ runs'[i].threwAt \notin {"load", "dump"} /\ o.json)
                   => /\ dump \in DOMAIN disk'
                      /\ disk'[dump] = [by |-> i, data |-> "json"]
                      /\ runs'[i].defs =
                            loadCdsAndConvertToJSON(
                                ContentOf(normalize(o.cds), runs'[i].ver), o.sort)
             /\ ~(i <= Len(runs) /\ runs[i].pc = "load" /\ o.json)
                   => \A p \in DOMAIN disk' :
                         disk'[p] = [by |-> i, data |-> "json"]
                             => p \in DOMAIN disk /\ disk[p] = disk'[p]
      ]_vars

\* One run with the json option has completed and its dump and its output
\* are both on disk, next to each other.
C13_Witness ==
    \E i \in 1..Len(runs) :
        \A o \in {runs[i].opts} :
            /\ o.json
            /\ runs[i].pc = "done"
            /\ runs[i].wrote = << normalize(o.output \o JsonExt), normalize(o.output) >>
            /\ existsSync(disk, o.output \o JsonExt)
            /\ disk[normalize(o.output \o JsonExt)] = [by |-> i, data |-> "json"]
            /\ existsSync(disk, o.output)

(***************************************************************************)
(* C14: in folder mode the initial runs are, in the order of the listing,  *)
(* runs for the ".cds" files of the folder: at most one per such file,     *)
(* none for a file with another extension, and one for each once the       *)
(* initial pass has completed; a run that fails ends the pass, and the     *)
(* files after it in the listing get no initial run.  Each run writes to   *)
(* its file's path with ".cds" replaced by ".ts", distinct files have      *)
(* distinct output paths, and the text of a run is a function of its own   *)
(* file's content and the options.                                         *)
(***************************************************************************)
InitRunIndexes == {i \in 1..Len(runs) : IsInitRun(runs[i])}

C14_OneInitialRunPerCdsFile ==
    FolderMode =>
        \A todo \in {ToConvert(1)} :
        \A inits \in {InitRunIndexes} :
            /\ inits = 1..Cardinality(inits)
            /\ Cardinality(inits) <= Cardinality(todo)
            /\ mainPc \in {"watching", "returned"}
                  => /\ Cardinality(inits) = Cardinality(todo)
                     /\ \A i \in inits : runs[i].pc = "done"
            /\ \A i \in inits :
                  /\ \A j \in inits : j < i => runs[j].pc = "done"
                  /\ \A o \in {runs[i].opts} :
                     \A name \in {listing[Nth(todo, i)]} :
                        /\ extname(name) = CdsExt
                        /\ o.cds = SrvDir \o << sep >> \o name
                        /\ o.output = SubSeq(o.cds, 1, Len(o.cds) - Len(CdsExt)) \o TsExt
                        /\ \A j \in inits :
                              j # i => normalize(runs[j].opts.output) # normalize(o.output)
                        /\ Loaded(runs[i]) =>
                              /\ runs[i].ver = 0
                              /\ runs[i].defs =
                                    loadCdsAndConvertToJSON(ContentOf(o.cds, 0), o.sort)
                        /\ Generated(runs[i]) =>
                              runs[i].text.body =
                                 generateCode(
                                    CDSParse(loadCdsAndConvertToJSON(
                                                 ContentOf(o.cds, 0), o.sort)),
                                    o.prefix)
                        /\ (runs[i].pc = "done" /\ events = << >>
                                /\ dirExists(dirs, dirname(o.output)))
                              => /\ existsSync(disk, o.output)
                                 /\ disk[normalize(o.output)] = [by |-> i, data |-> "text"]

\* C14 as stated: once run() has settled after reading the folder, every
\* ".cds" file of the listing has had exactly one initial run.
C14_EveryCdsFileHasARun ==
    (FolderMode /\ mainPc \in {"watching", "returned", "rejected"} /\ runs # << >>)
        => \A n \in ToConvert(1) :
              Cardinality({i \in InitRunIndexes :
                              runs[i].opts.cds = join(given.folder, listing[n])}) = 1

\* The initial pass over a folder with two ".cds" files and one other file
\* has completed: two runs, two output files, each the work of its own run.
C14_Witness ==
    /\ FolderMode
    /\ mainPc \in {"watching", "returned"}
    /\ events = << >>
    /\ Cardinality(ToConvert(1)) = 2
    /\ Len(listing) = 3
    /\ Len(runs) = 2
    /\ \A i \in 1..2 :
          /\ runs[i].pc = "done"
          /\ existsSync(disk, runs[i].opts.output)
          /\ disk[normalize(runs[i].opts.output)].by = i

(***************************************************************************)
(* C15: two runs that read the same schema content with the same sort,     *)
(* prefix and format options hold the same definitions and the same        *)
(* generated text, and once both have formatted it the same output text,   *)
(* whatever their files, their origin and the runs before them.            *)
(***************************************************************************)
ContentRead(r) == ContentOf(normalize(r.opts.cds), r.ver)

SameInput(r, s) ==
    /\ Loaded(r)
    /\ Loaded(s)
    /\ ContentRead(r) = ContentRead(s)
    /\ r.opts.sort = s.opts.sort
    /\ r.opts.prefix = s.opts.prefix
    /\ r.opts.format = s.opts.format

Formatted(r) == r.pc \in {"write", "done", "fatal"} \/ r.threwAt = "write"

EventsOfKind(kind) == {e \in 1..Len(events) : events[e].kind = kind}
RunsOfOrigin(origin) == {i \in 1..Len(runs) : runs[i].origin = origin}

C16_WatcherOnlyAfterInitialPass ==
    /\ watcher.created =>
          /\ given.watch
          /\ mainPc = "watching"
          /\ watcher.onChange
          /\ watcher.onAdd = FolderMode
          /\ \A i \in InitRunIndexes : runs[i].pc = "done"
          /\ Cardinality(InitRunIndexes) =
                IF FolderMode THEN Cardinality(ToConvert(1)) ELSE 1
    /\ ~watcher.created =>
          /\ events = << >>
          /\ WatchRunIndexes = {}
    /\ \A i \in WatchRunIndexes :
          /\ runs[i].origin \in {"add", "change"}
          /\ runs[i].origin = "add" => FolderMode
          /\ \A j \in InitRunIndexes : j < i
    /\ Cardinality(RunsOfOrigin("change")) = Cardinality(EventsOfKind("change"))
    /\ Cardinality(RunsOfOrigin("add")) =
          IF FolderMode THEN Cardinality(EventsOfKind("add")) ELSE 0

\* Single-file mode: an "add" event and a "change" event were emitted, and
\* only the "change" event started a run.
C16_Witness ==
    /\ ~FolderMode
    /\ watcher.created
    /\ Len(events) = 2
    /\ events[1].kind = "add"
    /\ events[2].kind = "change"
    /\ Cardinality(WatchRunIndexes) = 1
    /\ \A i \in WatchRunIndexes : runs[i].origin = "change"

(***************************************************************************)
(* C17: a run removes the file at its output path in the step that leaves  *)
(* cds.load, before the formatter is initialized; none of its later steps  *)
(* touches the disk but the last one, which writes the formatted text to   *)
(* the output path, once.  A file at an output path appears or changes     *)
(* only by such a last step.  So while a run is between the removal and    *)
(* its write, and after it failed there, a file at its output path is the  *)
(* work of another run with the same output path, and without such a run   *)
(* there is none, even if one existed before the run.                      *)
(***************************************************************************)
AfterRemoval(r) ==
    \/ r.pc \in {"init", "format", "write", "fatal"}
    \/ r.threwAt \in {"init", "format", "write"}

Stem(path) == basename(path, extname(path))
Directory(path) == StripTrailingSep(normalize(dirname(path)))

C18_ReplaceExt ==
    call.pc \in {"returned", "replaced twice"} =>
        \A p \in {call.npath} :
        \A e \in {call.ext} :
        \A r \in {call.once} :
            /\ p = <<>> => r = <<>>
            /\ p # <<>> =>
                  /\ r # <<>>
                  /\ Directory(r) = Directory(p)
                  /\ LastPart(r) = Stem(p) \o e
                  /\ startsWithSingleDot(p) => startsWithSingleDot(r)
                  /\ (Stem(p) # <<>> /\ e = TsExt)
                        => extname(r) = e /\ Stem(r) = Stem(p)
            /\ (call.pc = "replaced twice" /\ (p = <<>> \/ extname(r) = e))
                  => call.twice = r

\* C18 as stated: applying replaceExt twice with the same ext gives what
\* applying it once gives.
C18_Idempotent ==
    call.pc = "replaced twice" => call.twice = call.once

\* "./a.a" with ".ts": the extension is replaced, the "./" is kept, and a
\* second application changes nothing.
C18_Witness ==
    /\ call.pc = "replaced twice"
    /\ call.npath = <<".", sep, "a", ".", "a">>
    /\ call.ext = TsExt
    /\ call.once = <<".", sep, "a">> \o TsExt
    /\ call.twice = call.once

==============================================================================
